---- MODULE Spec2Model ----
(***************************************************************************)
(* Model of the societyai orchestration engine (package societyai):        *)
(* pool construction, fan-out/fan-in with a shared deadline context, the   *)
(* four-phase collaborative pipeline and the result aggregators.           *)
(*                                                                         *)
(* Go strings are modelled as sequences of string tokens; concatenation is *)
(* \o, the empty string is << >>.  Accents of the French literals are      *)
(* dropped.  Go slices are 0-based, TLA+ sequences 1-based: agent ID i is  *)
(* Agents[i+1].  An AIModel is its index in the models slice; -1 is nil.   *)
(***************************************************************************)
EXTENDS Integers, Sequences, FiniteSets, TLC

\* ------------------------------------------------------------------ bounds
MaxAgents == 3
MaxModels == 2
\* largest pool of the construction-and-dispatch specification BuildSpec
MaxPool == 6

\* ------------------------------------------------------------ text helpers
RECURSIVE Concat(_)
Concat(texts) ==
    IF texts = << >> THEN << >> ELSE Head(texts) \o Concat(Tail(texts))

Contains(text, pat) ==
    \E k \in 0..(Len(text) - Len(pat)) : SubSeq(text, k + 1, k + Len(pat)) = pat

Occurrences(text, pat) ==
    Cardinality({k \in 0..(Len(text) - Len(pat)) :
                    SubSeq(text, k + 1, k + Len(pat)) = pat})

Itoa(n) == ToString(n)

\* ------------------------------------------------------- the capabilities
\* A capability is opaque: a Process call may return a response or an error
\* at any time, or never.  The engine never inspects a response or an error,
\* so each is a value that identifies the call it came from (responses of
\* different calls are different strings, as with a recording fake).
Response(phase, id) == <<"response to ", phase, Itoa(id)>>

NoErr == << >>

ProcessErr(phase, id) == <<"process failed: ", phase, Itoa(id)>>

\* ---------------------------------------------------------------- errors
ErrInvalidAgentCount == <<"le nombre d'agents doit etre positif">>

ErrNoModelsSpecified == <<"au moins un modele AI doit etre specifie">>

ErrSynthModelNil == <<"le modele de synthese ne peut pas etre nil">>

ErrNoAgentForAnalysis == <<"aucun agent disponible pour l'analyse">>

ErrNothingToIntegrate == <<"aucune analyse a integrer">>

ErrNoAgentForResponse == <<"aucun agent disponible pour generer la reponse">>

ValidationErrors == {ErrInvalidAgentCount, ErrNoModelsSpecified, ErrSynthModelNil}

\* ------------------------------------------------------- pool construction
perspectives ==
    << <<"Analyse cette demande de maniere factuelle et concise: ">>,
       <<"Considere les implications et le contexte plus large de cette demande: ">>,
       <<"Identifie les exigences specifiques et le but de cette demande: ">>,
       <<"Reflechis aux approches les plus innovantes pour repondre a cette demande: ">>,
       <<"Examine les aspects techniques et pratiques de cette demande: ">> >>

generatePromptForAgent_NoRotation(basePrompt, agentID) ==
    perspectives[1] \o basePrompt

generatePromptForAgent(basePrompt, agentID) ==
    perspectives[(agentID % Len(perspectives)) + 1] \o basePrompt

allDimensions ==
    << <<"Comprehension fondamentale et factuelle du sujet">>,
       <<"Aspects pratiques et mise en oeuvre concrete">>,
       <<"Implications plus larges et considerations de contexte">>,
       <<"Defis potentiels et approches pour les surmonter">>,
       <<"Applications pratiques et exemples concrets">> >>

dimensionsFor_NoTruncate(agentCount) == allDimensions

\* dimensions[:config.AgentCount] when there are more dimensions than agents
dimensionsFor(agentCount) ==
    IF Len(allDimensions) > agentCount
    THEN SubSeq(allDimensions, 1, agentCount)
    ELSE allDimensions

NoContext == [InitialAnalysis |-> << >>, Dimensions |-> << >>, SharedInsights |-> << >>]

createSociety_AlwaysFirst(config, nModels) ==
    [ Agents |-> [ k \in 1..config.AgentCount |->
                    [ ID |-> k - 1,
                      Model |-> 0,
                      Prompt |-> generatePromptForAgent(config.Prompt, k - 1),
                      Phase |-> 0,
                      SharedAnalysis |-> << >>,
                      DimensionToExplore |-> << >> ] ],
      MultiModel |-> config.MultiModel,
      Context |-> NoContext ]

createSociety(config, nModels) ==
    [ Agents |-> [ k \in 1..config.AgentCount |->
                    [ ID |-> k - 1,
                      Model |-> IF config.MultiModel /\ nModels > 1
                                THEN (k - 1) % nModels
                                ELSE 0,
                      Prompt |-> generatePromptForAgent(config.Prompt, k - 1),
                      Phase |-> 0,
                      SharedAnalysis |-> << >>,
                      DimensionToExplore |-> << >> ] ],
      MultiModel |-> config.MultiModel,
      Context |-> NoContext ]

createCollaborativeSociety(config, nModels) ==
    LET dims == dimensionsFor(config.AgentCount) IN
    [ Agents |-> [ k \in 1..config.AgentCount |->
                    [ ID |-> k - 1,
                      Model |-> IF config.MultiModel /\ nModels > 1
                                THEN (k - 1) % nModels
                                ELSE 0,
                      Prompt |-> config.Prompt,
                      Phase |-> 0,
                      SharedAnalysis |-> << >>,
                      DimensionToExplore |-> dims[((k - 1) % Len(dims)) + 1] ] ],
      MultiModel |-> config.MultiModel,
      Context |-> [ InitialAnalysis |-> << >>,
                    Dimensions |-> dims,
                    SharedInsights |-> << >> ] ]

\* ------------------------------------------------------------------ state
VARIABLES
    cfg,        \* the call: mode, entry point, Config fields, models, synthModel
    pc,         \* position of the calling goroutine
    Agents,     \* SocietyGroup.Agents
    Context,    \* SocietyGroup.Context
    Results,    \* SocietyGroup.Results, a channel of capacity AgentCount
    errs,       \* the errs channel of run / exploreDimensions
    errsClosed, \* close(errs) has happened
    worker,     \* per agent: position of its goroutine
    held,       \* per agent: what its Process call returned
    wg,         \* sync.WaitGroup counter
    closer,     \* the goroutine doing wg.Wait(); close(errs)
    ctxDone,    \* the fan-out's context.WithTimeout context is cancelled
    deadline,   \* the timer of that context has fired
    expired,    \* the timer fired while some Process call was in flight
    log,        \* every Process call started, in order
    failures,   \* the errors returned so far by Process calls
    sentOrder,  \* the workers (by index) in the order of their sends on Results
    errOrder,   \* the workers (by index) in the order of their sends on errs
    results,    \* the local slice filled by the draining loops
    ret         \* (string, error) returned by the top-level call

vars == << cfg, pc, Agents, Context, Results, errs, errsClosed, worker, held,
           wg, closer, ctxDone, deadline, expired, log, failures, sentOrder,
           errOrder, results, ret >>

poolVars == << Agents, Context >>
chanVars == << Results, errs, errsClosed >>
workVars == << worker, held, wg, closer >>
ctxVars == << ctxDone, deadline, expired >>

Modes == {"standard", "synthesis", "collaborative"}

BasePrompt == <<"X">>

N == Len(Agents)

Config == [Prompt |-> cfg.Prompt, AgentCount |-> cfg.AgentCount,
           MultiModel |-> cfg.MultiModel]

\* the state when a top-level call with an agent count in `counts` begins
Start(counts) ==
    /\ cfg \in [ mode : Modes,
                 direct : BOOLEAN,
                 Prompt : {BasePrompt},
                 AgentCount : counts,
                 MultiModel : BOOLEAN,
                 nModels : 0..MaxModels,
                 synthNil : BOOLEAN ]
    /\ cfg.synthNil => cfg.mode = "synthesis"
    \* a direct Run* call with a Config the wrappers accept behaves exactly
    \* as the wrapper does after validation: only the rejected ones are kept
    /\ cfg.direct => (cfg.AgentCount <= 0 \/ cfg.nModels = 0 \/ cfg.synthNil)
    /\ pc = IF cfg.direct THEN "create" ELSE "Society"
    /\ Agents = << >>
    /\ Context = NoContext
    /\ Results = << >>
    /\ errs = << >>
    /\ errsClosed = FALSE
    /\ worker = << >>
    /\ held = << >>
    /\ wg = 0
    /\ closer = "none"
    /\ ctxDone = FALSE
    /\ deadline = FALSE
    /\ expired = FALSE
    /\ log = << >>
    /\ failures = {}
    /\ sentOrder = << >>
    /\ errOrder = << >>
    /\ results = << >>
    /\ ret = [text |-> << >>, err |-> NoErr]

Init == Start((-1)..MaxAgents)

Return(text, err) ==
    /\ pc' = "done"
    /\ ret' = [text |-> text, err |-> err]

Call(phase, a, prompt, ctx) ==
    [phase |-> phase, agent |-> a.ID, model |-> a.Model, prompt |-> prompt, ctx |-> ctx]

\* ------------------------------------------------------ exported wrappers
Society ==
    /\ pc = "Society" /\ cfg.mode = "standard"
    /\ IF cfg.AgentCount <= 0 THEN Return(<< >>, ErrInvalidAgentCount)
       ELSE IF cfg.nModels = 0 THEN Return(<< >>, ErrNoModelsSpecified)
       ELSE pc' = "create" /\ UNCHANGED ret
    /\ UNCHANGED << cfg, sentOrder, errOrder, failures, poolVars, chanVars, workVars, ctxVars, log, results >>

SocietyWithSynthesis_NoNilCheck ==
    /\ pc = "Society" /\ cfg.mode = "synthesis"
    /\ IF cfg.AgentCount <= 0 THEN Return(<< >>, ErrInvalidAgentCount)
       ELSE IF cfg.nModels = 0 THEN Return(<< >>, ErrNoModelsSpecified)
       ELSE pc' = "create" /\ UNCHANGED ret
    /\ UNCHANGED << cfg, sentOrder, errOrder, failures, poolVars, chanVars, workVars, ctxVars, log, results >>

SocietyWithSynthesis ==
    /\ pc = "Society" /\ cfg.mode = "synthesis"
    /\ IF cfg.AgentCount <= 0 THEN Return(<< >>, ErrInvalidAgentCount)
       ELSE IF cfg.nModels = 0 THEN Return(<< >>, ErrNoModelsSpecified)
       ELSE IF cfg.synthNil THEN Return(<< >>, ErrSynthModelNil)
       ELSE pc' = "create" /\ UNCHANGED ret
    /\ UNCHANGED << cfg, sentOrder, errOrder, failures, poolVars, chanVars, workVars, ctxVars, log, results >>

SocietyCollaborative ==
    /\ pc = "Society" /\ cfg.mode = "collaborative"
    /\ IF cfg.AgentCount <= 0 THEN Return(<< >>, ErrInvalidAgentCount)
       ELSE IF cfg.nModels = 0 THEN Return(<< >>, ErrNoModelsSpecified)
       ELSE pc' = "create" /\ UNCHANGED ret
    /\ UNCHANGED << cfg, sentOrder, errOrder, failures, poolVars, chanVars, workVars, ctxVars, log, results >>

\* --------------------------------------------- Run*: building the society
\* make([]*Agent, 0, n) panics for n < 0; models[0] panics on an empty slice.
BuildPanics == cfg.AgentCount < 0 \/ (cfg.AgentCount > 0 /\ cfg.nModels = 0)

Build(society, next) ==
    IF BuildPanics
    THEN pc' = "panic" /\ UNCHANGED << poolVars, Results >>
    ELSE /\ Agents' = society.Agents
         /\ Context' = society.Context
         /\ Results' = << >>
         /\ pc' = next

RunSociety ==
    /\ pc = "create" /\ cfg.mode = "standard"
    /\ Build(createSociety(Config, cfg.nModels), "run")
    /\ UNCHANGED << cfg, sentOrder, errOrder, failures, errs, errsClosed, workVars, ctxVars, log, results, ret >>

RunSocietyWithSynthesis ==
    /\ pc = "create" /\ cfg.mode = "synthesis"
    /\ Build(createSociety(Config, cfg.nModels), "run")
    /\ UNCHANGED << cfg, sentOrder, errOrder, failures, errs, errsClosed, workVars, ctxVars, log, results, ret >>

RunSocietyCollaborative ==
    /\ pc = "create" /\ cfg.mode = "collaborative"
    /\ Build(createCollaborativeSociety(Config, cfg.nModels), "initial")
    /\ UNCHANGED << cfg, sentOrder, errOrder, failures, errs, errsClosed, workVars, ctxVars, log, results, ret >>

\* ------------------------------------------------- fan-out: run (standard)
\* Launch(phase, prompts): context.WithTimeout, then one goroutine per agent
\* (each starts its Process call with the derived context), then the
\* goroutine that waits for the WaitGroup and closes errs.
Launch(phase, prompts, next) ==
    /\ errs' = << >>
    /\ errsClosed' = FALSE
    /\ worker' = [k \in 1..N |-> "calling"]
    /\ held' = [k \in 1..N |-> [ok |-> TRUE, val |-> << >>]]
    /\ wg' = N
    /\ closer' = "waiting"
    /\ log' = log \o [k \in 1..N |-> Call(phase, Agents[k], prompts[k], "fanout")]
    /\ pc' = next

processPrompt(a) == a.Prompt

run ==
    /\ pc = "run"
    /\ Launch("standard", [k \in 1..N |-> processPrompt(Agents[k])], "run_wait")
    /\ UNCHANGED << cfg, sentOrder, errOrder, failures, poolVars, Results, ctxVars, results, ret >>

runFails_PartialReport ==
    /\ pc = "run_wait"
    /\ errs # << >>
    /\ errs' = Tail(errs)
    /\ ctxDone' = TRUE
    /\ Return(Concat(Results), Head(errs))
    /\ UNCHANGED << cfg, sentOrder, errOrder, failures, poolVars, Results, errsClosed, workVars, deadline, expired,
                    log, results >>

\* for err := range errs { return err }, with the deferred cancel(); the
\* caller (RunSociety / RunSocietyWithSynthesis) returns "", err.
runFails ==
    /\ pc = "run_wait"
    /\ errs # << >>
    /\ errs' = Tail(errs)
    /\ ctxDone' = TRUE
    /\ Return(<< >>, Head(errs))
    /\ UNCHANGED << cfg, sentOrder, errOrder, failures, poolVars, Results, errsClosed, workVars, deadline, expired,
                    log, results >>

runSucceeds_NonBlocking ==
    /\ pc = "run_wait"
    /\ errs = << >>
    /\ ctxDone' = TRUE
    /\ pc' = IF cfg.mode = "synthesis" THEN "collectSynth" ELSE "collect"
    /\ results' = << >>
    /\ UNCHANGED << cfg, sentOrder, errOrder, failures, poolVars, chanVars, workVars, deadline, expired, log, ret >>

runSucceeds_IgnoresErrors ==
    /\ pc = "run_wait"
    /\ errsClosed
    /\ ctxDone' = TRUE
    /\ pc' = IF cfg.mode = "synthesis" THEN "collectSynth" ELSE "collect"
    /\ results' = << >>
    /\ UNCHANGED << cfg, sentOrder, errOrder, failures, poolVars, chanVars, workVars, deadline, expired, log, ret >>

\* the range loop ends on the closed, empty channel: return nil, cancel().
runSucceeds ==
    /\ pc = "run_wait"
    /\ errs = << >> /\ errsClosed
    /\ ctxDone' = TRUE
    /\ pc' = IF cfg.mode = "synthesis" THEN "collectSynth" ELSE "collect"
    /\ results' = << >>
    /\ UNCHANGED << cfg, sentOrder, errOrder, failures, poolVars, chanVars, workVars, deadline, expired, log, ret >>

\* ------------------------------------------------------ worker goroutines
InFanOut(k) == k \in DOMAIN worker

PhaseOfFanOut == IF cfg.mode = "collaborative" THEN "exploration" ELSE "standard"

\* a.Model.Process(ctx, prompt) returns (result, nil)
ProcessReturns(k) ==
    /\ InFanOut(k) /\ worker[k] = "calling"
    /\ worker' = [worker EXCEPT ![k] = "sendResult"]
    /\ held' = [held EXCEPT ![k] = [ok |-> TRUE,
                                    val |-> Response(PhaseOfFanOut, Agents[k].ID)]]
    /\ UNCHANGED << cfg, sentOrder, errOrder, failures, pc, poolVars, chanVars, wg, closer, ctxVars, log, results, ret >>

ProcessFails_Retries(k) ==
    /\ InFanOut(k) /\ worker[k] = "calling"
    /\ Len(log) < 2 * N
    /\ log' = Append(log, log[Len(log)])
    /\ failures' = failures \cup {ProcessErr(PhaseOfFanOut, Agents[k].ID)}
    /\ UNCHANGED << cfg, sentOrder, errOrder, pc, poolVars, chanVars, workVars, ctxVars, results, ret >>

\* a.Model.Process(ctx, prompt) returns ("", err)
ProcessFails(k) ==
    /\ InFanOut(k) /\ worker[k] = "calling"
    /\ worker' = [worker EXCEPT ![k] = "sendErr"]
    /\ held' = [held EXCEPT ![k] = [ok |-> FALSE,
                                    val |-> ProcessErr(PhaseOfFanOut, Agents[k].ID)]]
    /\ UNCHANGED << cfg, sentOrder, errOrder, pc, poolVars, chanVars, wg, closer, ctxVars, log, results, ret >>
    /\ failures' = failures \cup {ProcessErr(PhaseOfFanOut, Agents[k].ID)}

ResultsCap_OneShort == cfg.AgentCount - 1

\* results := make(chan string, config.AgentCount)
ResultsCap == cfg.AgentCount

SendResult_NoDone(k) ==
    /\ InFanOut(k) /\ worker[k] = "sendResult"
    /\ Len(Results) < ResultsCap
    /\ Results' = Append(Results, held[k].val)
    /\ sentOrder' = Append(sentOrder, k)
    /\ worker' = [worker EXCEPT ![k] = "done"]
    /\ UNCHANGED << cfg, errOrder, failures, pc, poolVars, errs, errsClosed, held, wg, closer, ctxVars,
                    log, results, ret >>

\* a.Results <- result (blocks while the buffer is full), then wg.Done()
SendResult(k) ==
    /\ InFanOut(k) /\ worker[k] = "sendResult"
    /\ Len(Results) < ResultsCap
    /\ Results' = Append(Results, held[k].val)
    /\ sentOrder' = Append(sentOrder, k)
    /\ worker' = [worker EXCEPT ![k] = "done"]
    /\ wg' = wg - 1
    /\ UNCHANGED << cfg, errOrder, failures, pc, poolVars, errs, errsClosed, held, closer, ctxVars,
                    log, results, ret >>

SendErr_Prepend(k) ==
    /\ InFanOut(k) /\ worker[k] = "sendErr"
    /\ Len(errs) < N
    /\ errs' = <<held[k].val>> \o errs
    /\ errOrder' = Append(errOrder, k)
    /\ worker' = [worker EXCEPT ![k] = "done"]
    /\ wg' = wg - 1
    /\ UNCHANGED << cfg, sentOrder, failures, pc, poolVars, Results, errsClosed, held, closer, ctxVars,
                    log, results, ret >>

SendErr_Unbuffered(k) ==
    /\ InFanOut(k) /\ worker[k] = "sendErr"
    /\ errs = << >> /\ pc \in {"run_wait", "explore_wait"}
    /\ errs' = Append(errs, held[k].val)
    /\ errOrder' = Append(errOrder, k)
    /\ worker' = [worker EXCEPT ![k] = "done"]
    /\ wg' = wg - 1
    /\ UNCHANGED << cfg, sentOrder, failures, pc, poolVars, Results, errsClosed, held, closer, ctxVars,
                    log, results, ret >>

\* errs <- err (buffer of len(s.Agents)), then wg.Done()
SendErr(k) ==
    /\ InFanOut(k) /\ worker[k] = "sendErr"
    /\ Len(errs) < N
    /\ errs' = Append(errs, held[k].val)
    /\ errOrder' = Append(errOrder, k)
    /\ worker' = [worker EXCEPT ![k] = "done"]
    /\ wg' = wg - 1
    /\ UNCHANGED << cfg, sentOrder, failures, pc, poolVars, Results, errsClosed, held, closer, ctxVars,
                    log, results, ret >>

\* go func() { wg.Wait(); close(errs) }()
CloseErrs ==
    /\ closer = "waiting"
    /\ wg = 0
    /\ closer' = "closed"
    /\ errsClosed' = TRUE
    /\ UNCHANGED << cfg, sentOrder, errOrder, failures, pc, poolVars, Results, errs, worker, held, wg, ctxVars,
                    log, results, ret >>

\* the timer of context.WithTimeout fires; cancel() stops it
DeadlineElapses ==
    /\ pc \in {"run_wait", "explore_wait"}
    /\ ~ctxDone
    /\ deadline' = TRUE
    /\ ctxDone' = TRUE
    /\ expired' = \E k \in DOMAIN worker : worker[k] = "calling"
    /\ UNCHANGED << cfg, sentOrder, errOrder, failures, pc, poolVars, chanVars, workVars, log, results, ret >>

\* ------------------------------------------------------------ aggregators
\* result := <-s.Results; results = append(results, result)
Receive ==
    /\ Len(results) < N
    /\ Results # << >>
    /\ results' = Append(results, Head(Results))
    /\ Results' = Tail(Results)

agentReport_ZeroBased(rs) ==
    <<"Synthese des analyses des agents:\n\n">>
        \o Concat([i \in 1..Len(rs) |-> <<"Agent ", Itoa(i - 1), ": ">> \o rs[i] \o <<"\n\n">>])

agentReport(rs) ==
    <<"Synthese des analyses des agents:\n\n">>
        \o Concat([i \in 1..Len(rs) |-> <<"Agent ", Itoa(i), ": ">> \o rs[i] \o <<"\n\n">>])

synthesizeResults(rs) ==
    <<"Synthese des resultats:\n">>
        \o Concat([i \in 1..Len(rs) |-> <<"\nAgent ", Itoa(i), ":\n">> \o rs[i] \o <<"\n">>])

synthesisPrompt_Reversed(rs) ==
    <<"Analyse et synthetise les perspectives suivantes des agents en une reponse coherente et approfondie:\n\n">>
        \o Concat([i \in 1..Len(rs) |->
                    <<"=== AGENT ", Itoa(i), " ===\n">> \o rs[Len(rs) + 1 - i] \o <<"\n\n">>])
        \o <<"Ta tache est de produire une synthese complete ... Synthese:">>

synthesisPrompt(rs) ==
    <<"Analyse et synthetise les perspectives suivantes des agents en une reponse coherente et approfondie:\n\n">>
        \o Concat([i \in 1..Len(rs) |-> <<"=== AGENT ", Itoa(i), " ===\n">> \o rs[i] \o <<"\n\n">>])
        \o <<"Ta tache est de produire une synthese complete ... Synthese:">>

collectResultsRecv ==
    /\ pc = "collect"
    /\ Receive
    /\ UNCHANGED << cfg, sentOrder, errOrder, failures, pc, poolVars, errs, errsClosed, workVars, ctxVars, log, ret >>

collectResults_ByIdentity ==
    /\ pc = "collect"
    /\ Len(results) = N
    /\ Return(agentReport([k \in 1..N |-> held[k].val]), NoErr)
    /\ UNCHANGED << cfg, sentOrder, errOrder, failures, poolVars, chanVars, workVars, ctxVars, log, results >>

collectResults ==
    /\ pc = "collect"
    /\ Len(results) = N
    /\ Return(agentReport(results), NoErr)
    /\ UNCHANGED << cfg, sentOrder, errOrder, failures, poolVars, chanVars, workVars, ctxVars, log, results >>

collectResultsWithSynthesisModelRecv ==
    /\ pc = "collectSynth"
    /\ Receive
    /\ UNCHANGED << cfg, sentOrder, errOrder, failures, pc, poolVars, errs, errsClosed, workVars, ctxVars, log, ret >>

\* -1 stands for "no agent" and for the synthesis model in the call log
SynthAgent == [ID |-> -1, Model |-> -1]

SynthesizeWithModel_DerivedCtx ==
    /\ pc = "collectSynth"
    /\ Len(results) = N
    /\ IF cfg.synthNil
       THEN pc' = "panic" /\ UNCHANGED log
       ELSE /\ log' = Append(log, Call("synthesis", SynthAgent, synthesisPrompt(results), "fanout"))
            /\ pc' = "synth_wait"
    /\ UNCHANGED << cfg, sentOrder, errOrder, failures, poolVars, chanVars, workVars, ctxVars, results, ret >>

\* SynthesizeWithModel: model.Process(ctx, prompt) with the caller's ctx;
\* a nil interface value panics on the method call.
SynthesizeWithModel ==
    /\ pc = "collectSynth"
    /\ Len(results) = N
    /\ IF cfg.synthNil
       THEN pc' = "panic" /\ UNCHANGED log
       ELSE /\ log' = Append(log, Call("synthesis", SynthAgent, synthesisPrompt(results), "caller"))
            /\ pc' = "synth_wait"
    /\ UNCHANGED << cfg, sentOrder, errOrder, failures, poolVars, chanVars, workVars, ctxVars, results, ret >>

synthesisSucceeds ==
    /\ pc = "synth_wait"
    /\ Return(agentReport(results)
                \o <<"\nConclusion consolidee (via modele de synthese):\n">> \o Response("synthesis", -1), NoErr)
    /\ UNCHANGED << cfg, sentOrder, errOrder, failures, poolVars, chanVars, workVars, ctxVars, log, results >>

synthesisFails_Propagates ==
    /\ pc = "synth_wait"
    /\ Return(<< >>, ProcessErr("synthesis", -1))
    /\ UNCHANGED << cfg, sentOrder, errOrder, poolVars, chanVars, workVars, ctxVars, log, results >>
    /\ failures' = failures \cup {ProcessErr("synthesis", -1)}

synthesisFails ==
    /\ pc = "synth_wait"
    /\ Return(agentReport(results)
                \o <<"\nConclusion consolidee (methode simple - erreur du modele de synthese):\n">>
                \o synthesizeResults(results)
                \o <<"\n\nErreur de synthese: ">> \o ProcessErr("synthesis", -1), NoErr)
    /\ UNCHANGED << cfg, sentOrder, errOrder, poolVars, chanVars, workVars, ctxVars, log, results >>
    /\ failures' = failures \cup {ProcessErr("synthesis", -1)}

\* --------------------------------------------------- collaborative pipeline
Share_DropsDimension(text) ==
    [k \in 1..N |-> [Agents[k] EXCEPT !.SharedAnalysis = text, !.DimensionToExplore = << >>]]

Share(text) == [k \in 1..N |-> [Agents[k] EXCEPT !.SharedAnalysis = text]]

analysisPrompt(a) ==
    <<"Analyse profondement cette demande pour en comprendre l'essence, les attentes implicites et explicites, et le niveau de detail approprie pour y repondre de maniere optimale: ">>
        \o a.Prompt

performInitialAnalysis_AllAgents ==
    /\ pc = "initial"
    /\ IF N = 0
       THEN Return(<< >>, ErrNoAgentForAnalysis) /\ UNCHANGED log
       ELSE /\ log' = log \o [k \in 1..N |->
                                Call("initial", Agents[k], analysisPrompt(Agents[k]), "caller")]
            /\ pc' = "initial_wait"
            /\ UNCHANGED ret
    /\ UNCHANGED << cfg, sentOrder, errOrder, failures, poolVars, chanVars, workVars, ctxVars, results >>

performInitialAnalysis ==
    /\ pc = "initial"
    /\ IF N = 0
       THEN Return(<< >>, ErrNoAgentForAnalysis) /\ UNCHANGED log
       ELSE /\ log' = Append(log, Call("initial", Agents[1], analysisPrompt(Agents[1]), "caller"))
            /\ pc' = "initial_wait"
            /\ UNCHANGED ret
    /\ UNCHANGED << cfg, sentOrder, errOrder, failures, poolVars, chanVars, workVars, ctxVars, results >>

initialAnalysisSucceeds_PartialBroadcast ==
    /\ pc = "initial_wait"
    /\ Context' = [Context EXCEPT !.InitialAnalysis = Response("initial", Agents[1].ID)]
    /\ Agents' = [Agents EXCEPT ![1].SharedAnalysis = Response("initial", Agents[1].ID)]
    /\ pc' = "explore"
    /\ UNCHANGED << cfg, sentOrder, errOrder, failures, chanVars, workVars, ctxVars, log, results, ret >>

initialAnalysisSucceeds ==
    /\ pc = "initial_wait"
    /\ Context' = [Context EXCEPT !.InitialAnalysis = Response("initial", Agents[1].ID)]
    /\ Agents' = Share(Response("initial", Agents[1].ID))
    /\ pc' = "explore"
    /\ UNCHANGED << cfg, sentOrder, errOrder, failures, chanVars, workVars, ctxVars, log, results, ret >>

initialAnalysisFails_Continues ==
    /\ pc = "initial_wait"
    /\ pc' = "explore"
    /\ UNCHANGED << cfg, sentOrder, errOrder, poolVars, chanVars, workVars, ctxVars, log, results, ret >>
    /\ failures' = failures \cup {ProcessErr("initial", Agents[1].ID)}

initialAnalysisFails ==
    /\ pc = "initial_wait"
    /\ Return(<< >>, ProcessErr("initial", Agents[1].ID))
    /\ UNCHANGED << cfg, sentOrder, errOrder, poolVars, chanVars, workVars, ctxVars, log, results >>
    /\ failures' = failures \cup {ProcessErr("initial", Agents[1].ID)}

explorationPrompt_FirstDimension(a) ==
    <<"En te basant sur cette analyse initiale:\n\n">> \o a.SharedAnalysis
        \o <<"\n\nExplore en profondeur cette dimension specifique: ">> \o Agents[1].DimensionToExplore
        \o <<"\n\nPour la question originale: ">> \o a.Prompt
        \o <<"\n\nAnalyse cette dimension de maniere detaillee et approfondie, ... Pense etape par etape et developpe une analyse nuancee et complete.">>

explorationPrompt(a) ==
    <<"En te basant sur cette analyse initiale:\n\n">> \o a.SharedAnalysis
        \o <<"\n\nExplore en profondeur cette dimension specifique: ">> \o a.DimensionToExplore
        \o <<"\n\nPour la question originale: ">> \o a.Prompt
        \o <<"\n\nAnalyse cette dimension de maniere detaillee et approfondie, ... Pense etape par etape et developpe une analyse nuancee et complete.">>

exploreDimensions ==
    /\ pc = "explore"
    /\ Launch("exploration", [k \in 1..N |-> explorationPrompt(Agents[k])], "explore_wait")
    /\ UNCHANGED << cfg, sentOrder, errOrder, failures, poolVars, Results, ctxVars, results, ret >>

exploreDimensionsFails_NoCancel ==
    /\ pc = "explore_wait"
    /\ errs # << >>
    /\ errs' = Tail(errs)
    /\ Return(<< >>, Head(errs))
    /\ UNCHANGED << cfg, sentOrder, errOrder, failures, poolVars, Results, errsClosed, workVars, ctxVars,
                    log, results >>

exploreDimensionsFails_StoresPartial ==
    /\ pc = "explore_wait"
    /\ errs # << >>
    /\ errs' = Tail(errs)
    /\ ctxDone' = TRUE
    /\ Context' = [Context EXCEPT !.SharedInsights = Results]
    /\ Return(<< >>, Head(errs))
    /\ UNCHANGED << cfg, sentOrder, errOrder, failures, Agents, Results, errsClosed, workVars, deadline,
                    expired, log, results >>

exploreDimensionsFails ==
    /\ pc = "explore_wait"
    /\ errs # << >>
    /\ errs' = Tail(errs)
    /\ ctxDone' = TRUE
    /\ Return(<< >>, Head(errs))
    /\ UNCHANGED << cfg, sentOrder, errOrder, failures, poolVars, Results, errsClosed, workVars, deadline, expired,
                    log, results >>

exploreDimensionsSucceeds ==
    /\ pc = "explore_wait"
    /\ errs = << >> /\ errsClosed
    /\ pc' = "explore_drain"
    /\ results' = << >>
    /\ UNCHANGED << cfg, sentOrder, errOrder, failures, poolVars, chanVars, workVars, ctxVars, log, ret >>

\* insights[i] = <-s.Results
exploreDimensionsRecv ==
    /\ pc = "explore_drain"
    /\ Receive
    /\ UNCHANGED << cfg, sentOrder, errOrder, failures, pc, poolVars, errs, errsClosed, workVars, ctxVars, log, ret >>

exploreDimensionsStore_Eager ==
    /\ pc = "explore_drain"
    /\ Len(results) >= 1
    /\ Context' = [Context EXCEPT !.SharedInsights = results]
    /\ ctxDone' = TRUE
    /\ pc' = "integrate"
    /\ UNCHANGED << cfg, sentOrder, errOrder, failures, Agents, chanVars, workVars, deadline, expired, log, results, ret >>

\* s.Context.SharedInsights = insights; return nil, with the deferred cancel()
exploreDimensionsStore ==
    /\ pc = "explore_drain"
    /\ Len(results) = N
    /\ Context' = [Context EXCEPT !.SharedInsights = results]
    /\ ctxDone' = TRUE
    /\ pc' = "integrate"
    /\ UNCHANGED << cfg, sentOrder, errOrder, failures, Agents, chanVars, workVars, deadline, expired, log, results, ret >>

integrationPrompt ==
    <<"Integre organiquement ces differentes analyses en une comprehension coherente et unifiee:\n\n">>
        \o <<"Comprehension initiale de la demande:\n">> \o Context.InitialAnalysis \o <<"\n\n">>
        \o Concat([i \in 1..Len(Context.SharedInsights) |->
                    <<"Dimension: ">> \o Agents[i].DimensionToExplore \o <<"\n">>
                        \o Context.SharedInsights[i] \o <<"\n\n">>])
        \o <<"Ta tache est de synthetiser ces analyses en une comprehension integree ... une reflexion collaborative approfondie.">>

integrateAnalyses_NeedsTwo ==
    /\ pc = "integrate"
    /\ IF N = 0 \/ Len(Context.SharedInsights) < 2
       THEN Return(<< >>, ErrNothingToIntegrate) /\ UNCHANGED log
       ELSE /\ log' = Append(log, Call("integration", Agents[1], integrationPrompt, "caller"))
            /\ pc' = "integrate_wait"
            /\ UNCHANGED ret
    /\ UNCHANGED << cfg, sentOrder, errOrder, failures, poolVars, chanVars, workVars, ctxVars, results >>

integrateAnalyses ==
    /\ pc = "integrate"
    /\ IF N = 0 \/ Len(Context.SharedInsights) = 0
       THEN Return(<< >>, ErrNothingToIntegrate) /\ UNCHANGED log
       ELSE /\ log' = Append(log, Call("integration", Agents[1], integrationPrompt, "caller"))
            /\ pc' = "integrate_wait"
            /\ UNCHANGED ret
    /\ UNCHANGED << cfg, sentOrder, errOrder, failures, poolVars, chanVars, workVars, ctxVars, results >>

integrationSucceeds_OverwritesInitial ==
    /\ pc = "integrate_wait"
    /\ Agents' = Share(Response("integration", Agents[1].ID))
    /\ Context' = [Context EXCEPT !.InitialAnalysis = Response("integration", Agents[1].ID)]
    /\ pc' = "final"
    /\ UNCHANGED << cfg, sentOrder, errOrder, failures, chanVars, workVars, ctxVars, log, results, ret >>

integrationSucceeds ==
    /\ pc = "integrate_wait"
    /\ Agents' = Share(Response("integration", Agents[1].ID))
    /\ pc' = "final"
    /\ UNCHANGED << cfg, sentOrder, errOrder, failures, Context, chanVars, workVars, ctxVars, log, results, ret >>

integrationFails_ClearsSlots ==
    /\ pc = "integrate_wait"
    /\ Agents' = Share(<< >>)
    /\ Return(<< >>, ProcessErr("integration", Agents[1].ID))
    /\ UNCHANGED << cfg, sentOrder, errOrder, Context, chanVars, workVars, ctxVars, log, results >>
    /\ failures' = failures \cup {ProcessErr("integration", Agents[1].ID)}

integrationFails ==
    /\ pc = "integrate_wait"
    /\ Return(<< >>, ProcessErr("integration", Agents[1].ID))
    /\ UNCHANGED << cfg, sentOrder, errOrder, poolVars, chanVars, workVars, ctxVars, log, results >>
    /\ failures' = failures \cup {ProcessErr("integration", Agents[1].ID)}

responsePrompt(a) ==
    <<"En t'appuyant sur cette analyse integree et approfondie:\n\n">> \o a.SharedAnalysis
        \o <<"\n\nFormule une reponse directe, claire et complete a la demande originale: ">> \o a.Prompt
        \o <<"\n\nLa reponse doit etre parfaitement adaptee ... concentre-toi uniquement sur la reponse a la demande.">>

generateFinalResponse ==
    /\ pc = "final"
    /\ IF N = 0
       THEN Return(<< >>, ErrNoAgentForResponse) /\ UNCHANGED log
       ELSE /\ log' = Append(log, Call("final", Agents[1], responsePrompt(Agents[1]), "caller"))
            /\ pc' = "final_wait"
            /\ UNCHANGED ret
    /\ UNCHANGED << cfg, sentOrder, errOrder, failures, poolVars, chanVars, workVars, ctxVars, results >>

finalResponseSucceeds ==
    /\ pc = "final_wait"
    /\ Return(Response("final", Agents[1].ID), NoErr)
    /\ UNCHANGED << cfg, sentOrder, errOrder, failures, poolVars, chanVars, workVars, ctxVars, log, results >>

finalResponseFails ==
    /\ pc = "final_wait"
    /\ Return(<< >>, ProcessErr("final", Agents[1].ID))
    /\ UNCHANGED << cfg, sentOrder, errOrder, poolVars, chanVars, workVars, ctxVars, log, results >>
    /\ failures' = failures \cup {ProcessErr("final", Agents[1].ID)}

\* ----------------------------------------------------------- specification
Next ==
    \/ Society
    \/ SocietyWithSynthesis
    \/ SocietyCollaborative
    \/ RunSociety
    \/ RunSocietyWithSynthesis
    \/ RunSocietyCollaborative
    \/ run
    \/ runFails
    \/ runSucceeds
    \/ \E k \in 1..MaxAgents : ProcessReturns(k)
    \/ \E k \in 1..MaxAgents : ProcessFails(k)
    \/ \E k \in 1..MaxAgents : SendResult(k)
    \/ \E k \in 1..MaxAgents : SendErr(k)
    \/ CloseErrs
    \/ DeadlineElapses
    \/ collectResultsRecv
    \/ collectResults
    \/ collectResultsWithSynthesisModelRecv
    \/ SynthesizeWithModel
    \/ synthesisSucceeds
    \/ synthesisFails
    \/ performInitialAnalysis
    \/ initialAnalysisSucceeds
    \/ initialAnalysisFails
    \/ exploreDimensions
    \/ exploreDimensionsFails
    \/ exploreDimensionsSucceeds
    \/ exploreDimensionsRecv
    \/ exploreDimensionsStore
    \/ integrateAnalyses
    \/ integrationSucceeds
    \/ integrationFails
    \/ generateFinalResponse
    \/ finalResponseSucceeds
    \/ finalResponseFails

Spec == Init /\ [][Next]_vars

\* Pool construction and dispatch alone, for pools larger than the five
\* perspectives and dimensions: the wrappers, the builders and the launch of
\* run (which records the prompt and the model of every agent's Process call).
BuildInit == Start(1..MaxPool)

BuildNext ==
    \/ Society
    \/ SocietyWithSynthesis
    \/ SocietyCollaborative
    \/ RunSociety
    \/ RunSocietyWithSynthesis
    \/ RunSocietyCollaborative
    \/ run

BuildSpec == BuildInit /\ [][BuildNext]_vars

\* The calling goroutine: the wrappers, the builders, the runners, the
\* aggregators and the single-agent phases (whose Process calls return).
Caller ==
    \/ Society \/ SocietyWithSynthesis \/ SocietyCollaborative
    \/ RunSociety \/ RunSocietyWithSynthesis \/ RunSocietyCollaborative
    \/ run \/ runFails \/ runSucceeds
    \/ collectResultsRecv \/ collectResults
    \/ collectResultsWithSynthesisModelRecv \/ SynthesizeWithModel
    \/ synthesisSucceeds \/ synthesisFails
    \/ performInitialAnalysis \/ initialAnalysisSucceeds \/ initialAnalysisFails
    \/ exploreDimensions \/ exploreDimensionsFails \/ exploreDimensionsSucceeds
    \/ exploreDimensionsRecv \/ exploreDimensionsStore
    \/ integrateAnalyses \/ integrationSucceeds \/ integrationFails
    \/ generateFinalResponse \/ finalResponseSucceeds \/ finalResponseFails

\* the goroutine of agent k: its Process call returns, then it sends
Worker(k) == ProcessReturns(k) \/ ProcessFails(k) \/ SendResult(k) \/ SendErr(k)

\* Every goroutine that can run is eventually scheduled and every Process
\* call eventually returns; the deadline timer need not fire.
LiveSpec ==
    /\ Init /\ [][Next]_vars
    /\ WF_vars(Caller)
    /\ \A k \in 1..MaxAgents : WF_vars(Worker(k))
    /\ WF_vars(CloseErrs)

\* ================================================================= claims
Succeeded(mode) == pc = "done" /\ cfg.mode = mode /\ ret.err = NoErr

Output(k) == held[k].val

DistinctOutputs == \A i, j \in 1..N : i # j => Output(i) # Output(j)

Labelled(k, r) == <<"Agent ", Itoa(k), ": ">> \o r \o <<"\n\n">>

\* C1: when Society succeeds with N > 0 agents whose capabilities returned
\* pairwise distinct strings, the report contains each string exactly once,
\* each under a label "Agent k" with k in 1..N, and each label 1..N is used
\* exactly once, whatever the order in which the workers completed.
C1_ReportListsEachResultOnce ==
    (Succeeded("standard") /\ N > 0 /\ DistinctOutputs) =>
        /\ \A i \in 1..N : Occurrences(ret.text, Output(i)) = 1
        /\ \A i \in 1..N : \E k \in 1..N : Contains(ret.text, Labelled(k, Output(i)))
        /\ \A k \in 1..N :
              Cardinality({i \in 1..N : Contains(ret.text, Labelled(k, Output(i)))}) = 1
        /\ Occurrences(ret.text, <<"Agent ">>) = N

\* a successful standard run of at least two agents whose results arrived
\* in an order other than the agents' order
C1_Witness ==
    /\ Succeeded("standard") /\ N >= 2 /\ DistinctOutputs
    /\ results[1] # Output(1)

\* C2: once Society or SocietyCollaborative has returned, if any capability
\* call of the run returned a failure then the call returned one of those
\* failures together with an empty text (no report, no partial answer).
C2_FailureReturnedWithoutText ==
    (pc = "done" /\ cfg.mode \in {"standard", "collaborative"} /\ failures # {}) =>
        /\ ret.err \in failures
        /\ ret.text = << >>

\* Society returned some agent's failure while a sibling's result was
\* already in the result channel
C2_Witness ==
    /\ pc = "done" /\ cfg.mode = "standard"
    /\ ret.err \in failures
    /\ Results # << >>

InvalidCall ==
    \/ cfg.AgentCount <= 0
    \/ cfg.nModels = 0
    \/ (cfg.mode = "synthesis" /\ cfg.synthNil)

NothingStarted ==
    /\ Agents = << >> /\ worker = << >> /\ closer = "none" /\ log = << >>
    /\ pc \in {"Society", "done"}

\* C3: the three exported wrappers reject agentCount <= 0 with
\* ErrInvalidAgentCount, an empty model list with ErrNoModelsSpecified and
\* (SocietyWithSynthesis) a nil synthesis model with its own error; when
\* several of these hold at once the error is the one of the first check in
\* the order count, models, synthesis model.  In every such call no society
\* is built, no goroutine is launched and no Process call is made.
C3_ValidationBeforeAnyWork ==
    (~cfg.direct /\ InvalidCall) =>
        /\ NothingStarted
        /\ pc = "done" =>
              /\ ret.text = << >>
              /\ cfg.AgentCount <= 0 => ret.err = ErrInvalidAgentCount
              /\ cfg.nModels = 0 =>
                    /\ ret.err \in {ErrNoModelsSpecified, ErrInvalidAgentCount}
                    /\ cfg.AgentCount > 0 => ret.err = ErrNoModelsSpecified
              /\ cfg.synthNil =>
                    /\ ret.err \in ValidationErrors
                    /\ (cfg.AgentCount > 0 /\ cfg.nModels > 0) => ret.err = ErrSynthModelNil

\* SocietyWithSynthesis returned the nil-synthesis-model error
C3_Witness ==
    /\ pc = "done" /\ ~cfg.direct /\ cfg.mode = "synthesis"
    /\ cfg.synthNil /\ cfg.AgentCount > 0 /\ cfg.nModels > 0
    /\ ret.err = ErrSynthModelNil

Built ==
    /\ pc \notin {"Society", "create", "panic"}
    /\ ~(pc = "done" /\ ret.err \in ValidationErrors)

\* C4: once either builder has run for N > 0 agents and M >= 1 models, the
\* pool has exactly N agents with IDs 0..N-1 in order; with MultiModel and
\* M > 1 agent i is bound to the model whose index is the remainder of i by
\* M, otherwise every agent is bound to models[0].
C4_ModelBinding ==
    (Built /\ cfg.AgentCount > 0 /\ cfg.nModels >= 1) =>
        /\ Len(Agents) = cfg.AgentCount
        /\ \A k \in 1..Len(Agents) :
              /\ Agents[k].ID = k - 1
              /\ IF cfg.MultiModel /\ cfg.nModels > 1
                 THEN /\ Agents[k].Model \in 0..(cfg.nModels - 1)
                      /\ \E q \in 0..cfg.AgentCount :
                            Agents[k].ID = q * cfg.nModels + Agents[k].Model
                 ELSE Agents[k].Model = 0

\* a pool with more agents than models under MultiModel: the binding wraps
C4_Witness ==
    /\ Built /\ cfg.MultiModel /\ cfg.nModels = 2 /\ Len(Agents) = 3
    /\ Agents[3].Model = 0 /\ Agents[2].Model = 1

SynthesisErr == ProcessErr("synthesis", -1)

\* C5: when all agents succeeded and the synthesis model's Process failed,
\* SocietyWithSynthesis returns a nil error and a text that contains the
\* per-agent report, the fallback "Agent k:\n<text>" for every drained
\* result and the message of the synthesis error.
C5_SynthesisFailureDowngraded ==
    (pc = "done" /\ cfg.mode = "synthesis" /\ SynthesisErr \in failures) =>
        /\ ret.err = NoErr
        /\ Len(results) = N
        /\ \A k \in 1..N :
              /\ Contains(ret.text, Labelled(k, results[k]))
              /\ Contains(ret.text, <<"\nAgent ", Itoa(k), ":\n">> \o results[k] \o <<"\n">>)
        /\ Contains(ret.text, <<"Synthese des analyses des agents:\n\n">>)
        /\ Contains(ret.text, SynthesisErr)

\* the synthesis model failed after two or more agents had succeeded
C5_Witness ==
    /\ pc = "done" /\ cfg.mode = "synthesis" /\ SynthesisErr \in failures
    /\ N >= 2 /\ ret.err = NoErr

PhaseRank(phase) ==
    CASE phase = "initial" -> 1
      [] phase = "exploration" -> 2
      [] phase = "integration" -> 3
      [] phase = "final" -> 4
      [] OTHER -> 0

\* the phase of the call that returned error e (see ProcessErr)
PhaseOfErr(e) == e[2]

\* C6: in a collaborative run, once a Process call of some phase has failed
\* no Process call of a later phase is in the call log, and when
\* RunSocietyCollaborative has returned it returned one of the failures with
\* an empty text.
C6_FailureAbortsPipeline ==
    cfg.mode = "collaborative" =>
        /\ \A e \in failures : \A i \in 1..Len(log) :
              PhaseRank(log[i].phase) <= PhaseRank(PhaseOfErr(e))
        /\ (pc = "done" /\ failures # {}) =>
              (ret.err \in failures /\ ret.text = << >>)

\* the integration call failed after a successful exploration by 2+ agents
C6_Witness ==
    /\ pc = "done" /\ cfg.mode = "collaborative" /\ N >= 2
    /\ ret.err = ProcessErr("integration", 0)
    /\ Len(Context.SharedInsights) = N

Calls(phase, id) ==
    Cardinality({i \in 1..Len(log) : log[i].phase = phase /\ log[i].agent = id})

ModelCalls(m) == Cardinality({i \in 1..Len(log) : log[i].model = m})

OwnCapability == \A i, j \in 1..N : i # j => Agents[i].Model # Agents[j].Model

\* C7: a successful SocietyCollaborative run over N agents made exactly N + 3
\* Process calls: agent 0 once for each of initial analysis, integration and
\* final response, and every agent once for exploration; when every agent
\* has its own model, model 0 served four calls and every other model one.
C7_CollaborativeCallCounts ==
    Succeeded("collaborative") =>
        /\ \A id \in 0..(N - 1) :
              /\ Calls("exploration", id) = 1
              /\ \A ph \in {"initial", "integration", "final"} :
                    Calls(ph, id) = IF id = 0 THEN 1 ELSE 0
        /\ Len(log) = N + 3
        /\ OwnCapability =>
              \A k \in 1..N : ModelCalls(Agents[k].Model) = IF k = 1 THEN 4 ELSE 1

\* a successful collaborative run of two agents bound to two models
C7_Witness ==
    /\ Succeeded("collaborative") /\ N = 2 /\ OwnCapability

\* C8: after a successful exploration, entry i of the context's insight
\* list is the response of agent i's exploration call, for every completion
\* order of the workers.
C8_InsightsAlignedWithAgents ==
    (cfg.mode = "collaborative" /\ Context.SharedInsights # << >>) =>
        \A k \in 1..N : Context.SharedInsights[k] = Output(k)

\* C9: once the shared deadline has elapsed with a Process call still in
\* flight, the runner reports a failure to its caller: it never goes on to
\* the draining step of a successful fan-out.
C9_DeadlineReportedAsFailure ==
    expired => pc \notin {"collect", "collectSynth", "explore_drain"}

FanOutCalls == {i \in 1..Len(log) : log[i].phase \in {"standard", "exploration"}}

\* context.Background(), passed by the wrappers, is never cancelled
Cancelled(call) == call.ctx = "fanout" /\ ctxDone

RunnerWaiting == pc \in {"run_wait", "explore_wait"}

\* C10: every worker's Process call of a fan-out is made with the fan-out's
\* own derived context, and whenever the runner has returned or the deadline
\* has fired, the context of every call still in flight is cancelled.
C10_InFlightCallsSeeCancellation ==
    /\ \A i \in FanOutCalls : log[i].ctx = "fanout"
    /\ \A k \in DOMAIN worker :
          (worker[k] = "calling" /\ (~RunnerWaiting \/ deadline)) =>
              \E i \in FanOutCalls : log[i].agent = Agents[k].ID /\ Cancelled(log[i])

\* the runner returned on a first failure, before the deadline, while a
\* sibling's Process call was still in flight
C10_Witness ==
    /\ pc = "done" /\ ~deadline /\ ret.err \in failures
    /\ \E k \in DOMAIN worker : worker[k] = "calling"

AllShare(text) == \A k \in 1..N : Agents[k].SharedAnalysis = text

\* what the pipeline must have written before a call of the phase starts
Committed(phase) ==
    CASE phase = "exploration" ->
            /\ Context.InitialAnalysis = Response("initial", 0)
            /\ AllShare(Response("initial", 0))
      [] phase = "integration" ->
            /\ N > 0 /\ Len(Context.SharedInsights) = N
            /\ \A k \in 1..N : worker[k] = "done" /\ held[k].ok
      [] phase = "final" -> AllShare(Response("integration", 0))
      [] OTHER -> TRUE

\* C11: every step that starts a Process call of a collaborative phase is
\* taken from a state in which the previous phase's writes are complete: the
\* initial analysis is stored and copied to every agent before any
\* exploration call, all N insights are stored before the integration call,
\* and the integrated analysis is in every agent before the final call.
C11_PhasesTotallyOrdered ==
    [][\A i \in (Len(log) + 1)..Len(log') : Committed(log'[i].phase)]_vars

\* the final-response call of a pool of two or more agents is in flight
C11_Witness ==
    /\ pc = "final_wait" /\ N >= 2
    /\ log[Len(log)].phase = "final"

Framing(j) == perspectives[j]

\* C12: the five perspectives are pairwise distinct; in standard and
\* synthesis mode agent i's prompt, which is also the prompt of its Process
\* call, is perspective (i mod 5) followed by the original prompt, so with
\* two agents and two models under MultiModel model 0 is asked framing 0 and
\* model 1 framing 1; in collaborative mode every agent's prompt is the
\* original prompt alone.
C12_PromptFraming ==
    /\ Len(perspectives) = 5
    /\ \A i, j \in 1..5 : i # j => Framing(i) # Framing(j)
    /\ (Built /\ cfg.AgentCount > 0 /\ cfg.nModels >= 1) =>
          /\ \A k \in 1..N :
                IF cfg.mode = "collaborative"
                THEN Agents[k].Prompt = cfg.Prompt
                ELSE \E j \in 1..5, q \in 0..N :
                        /\ k - 1 = 5 * q + (j - 1)
                        /\ Agents[k].Prompt = Framing(j) \o cfg.Prompt
          /\ \A i \in FanOutCalls : log[i].prompt = Agents[log[i].agent + 1].Prompt
          /\ (N = 2 /\ cfg.MultiModel /\ cfg.nModels = 2 /\ log # << >>) =>
                \A m \in {0, 1} : \E i \in FanOutCalls :
                    /\ log[i].model = m
                    /\ log[i].prompt = Framing(m + 1) \o cfg.Prompt

\* six agents were dispatched in standard mode: the sixth has the first
\* agent's framing again
C12_Witness ==
    /\ cfg.mode = "standard" /\ N = 6 /\ Len(log) = 6
    /\ Agents[6].Prompt = Agents[1].Prompt
    /\ Agents[5].Prompt # Agents[1].Prompt

Finished(k) == worker[k] = "done"

SentResult == {k \in DOMAIN worker : Finished(k) /\ held[k].ok}

\* C13: the result channel has room for one result per agent and every
\* worker sends at most one, so a worker that is about to send its result is
\* never blocked by a full channel, also after the runner has returned on a
\* failure and nobody drains the channel.
C13_ResultSendNeverBlocks ==
    worker # << >> =>
        /\ ResultsCap = N
        /\ \A k \in DOMAIN worker : worker[k] = "sendResult" => Len(Results) < ResultsCap
        /\ Len(sentOrder) = Cardinality(SentResult)
        /\ \A i, j \in 1..Len(sentOrder) : i # j => sentOrder[i] # sentOrder[j]

\* the runner returned a failure and every sibling still sent its result
\* into the channel that nobody reads
C13_Witness ==
    /\ pc = "done" /\ ret.err \in failures /\ N >= 2
    /\ Len(Results) = N - 1

\* C14: when Society succeeds, collectResults has received exactly N results
\* and left the channel empty, and the text under "Agent k" is the k-th
\* result that was sent on the channel, whichever agent sent it.
C14_LabelsFollowArrivalOrder ==
    Succeeded("standard") =>
        /\ Results = << >>
        /\ Len(results) = N /\ Len(sentOrder) = N
        /\ \A k \in 1..N : Contains(ret.text, Labelled(k, Output(sentOrder[k])))

\* the last agent of the pool was the first to send: it is "Agent 1"
C14_Witness ==
    /\ Succeeded("standard") /\ N >= 2
    /\ sentOrder[1] = N
    /\ Contains(ret.text, Labelled(1, Output(N)))

FanOutSucceeded == pc \in {"collect", "collectSynth", "explore_drain"}

\* C15: when run or exploreDimensions has returned nil, every worker has
\* finished, none of them failed (an error sent before close(errs) is never
\* missed) and the results channel and the draining loop together hold
\* exactly N results.
C15_SuccessMeansAllSucceeded ==
    FanOutSucceeded =>
        /\ \A k \in 1..N : Finished(k) /\ held[k].ok
        /\ failures = {}
        /\ errsClosed /\ errs = << >>
        /\ Len(Results) + Len(results) = N

\* exploreDimensions stopped waiting with all results of 2+ agents buffered
C15_Witness ==
    /\ pc = "explore_drain" /\ N >= 2
    /\ Len(Results) = N /\ results = << >>

SynthCalls == {i \in 1..Len(log) : log[i].phase = "synthesis"}

AgentBlock(k, r) == <<"=== AGENT ", Itoa(k), " ===\n">> \o r \o <<"\n\n">>

\* C16: in synthesis mode the synthesis model's Process is called at most
\* once, and exactly once in a run that returns a nil error; the call is
\* made after all N results were drained, as the last call of the run, with
\* a prompt that lists the N results in the order they were sent, which is
\* also the order of the labels of the returned report.
C16_SynthesisAfterDrain ==
    cfg.mode = "synthesis" =>
        /\ Cardinality(SynthCalls) <= 1
        /\ (pc = "done" /\ ret.err = NoErr) => Cardinality(SynthCalls) = 1
        /\ \A i \in SynthCalls :
              /\ i = Len(log) /\ i = N + 1
              /\ Results = << >> /\ Len(results) = N /\ Len(sentOrder) = N
              /\ \A k \in 1..N :
                    Contains(log[i].prompt, AgentBlock(k, Output(sentOrder[k])))
              /\ pc = "done" =>
                    \A k \in 1..N : Contains(ret.text, Labelled(k, Output(sentOrder[k])))

\* the synthesis call is in flight for results that arrived out of order
C16_Witness ==
    /\ pc = "synth_wait" /\ N >= 2
    /\ sentOrder[1] # 1
    /\ SynthCalls # {}

PhaseCalls(phase) == {i \in 1..Len(log) : log[i].phase = phase}

\* the exploration call of worker j
ExplorationCall(j) ==
    CHOOSE i \in PhaseCalls("exploration") : log[i].agent = Agents[j].ID

DimensionPair(label, insight) ==
    <<"Dimension: ">> \o label \o <<"\n">> \o insight \o <<"\n\n">>

NamesDimension(prompt, label) ==
    Contains(prompt, <<"\n\nExplore en profondeur cette dimension specifique: ">> \o label)

\* C17: the integration prompt contains the initial analysis and exactly one
\* (dimension label, insight) pair per agent, and the insight of every pair
\* is the response of an exploration call whose prompt named that same
\* dimension label, for every completion order of the workers.
C17_PairsMatchDimension ==
    \A i \in PhaseCalls("integration") :
        /\ Contains(log[i].prompt, Response("initial", 0))
        /\ Occurrences(log[i].prompt, <<"Dimension: ">>) = N
        /\ \A k \in 1..N :
              /\ Contains(log[i].prompt,
                          DimensionPair(Agents[k].DimensionToExplore, Context.SharedInsights[k]))
              /\ \E j \in 1..N :
                    /\ Context.SharedInsights[k] = Output(j)
                    /\ NamesDimension(log[ExplorationCall(j)].prompt,
                                      Agents[k].DimensionToExplore)

\* C18: once the initial analysis has succeeded, and until integration
\* overwrites the agents' slots, the context's initial analysis is agent 0's
\* response and every agent's SharedAnalysis equals it; every exploration
\* prompt embeds that text, the agent's own dimension label (and no other
\* agent's different label) and the original prompt.
C18_ExplorationPromptContent ==
    cfg.mode = "collaborative" =>
        /\ pc \in {"explore", "explore_wait", "explore_drain", "integrate", "integrate_wait"} =>
              /\ Context.InitialAnalysis = Response("initial", 0)
              /\ AllShare(Context.InitialAnalysis)
        /\ \A i \in PhaseCalls("exploration") :
              LET a == Agents[log[i].agent + 1] IN
              /\ Contains(log[i].prompt,
                          <<"En te basant sur cette analyse initiale:\n\n">>
                              \o Response("initial", 0))
              /\ NamesDimension(log[i].prompt, a.DimensionToExplore)
              /\ \A k \in 1..N :
                    Agents[k].DimensionToExplore # a.DimensionToExplore =>
                        ~Contains(log[i].prompt, Agents[k].DimensionToExplore)
              /\ Contains(log[i].prompt, <<"\n\nPour la question originale: ">> \o cfg.Prompt)

\* the exploration calls of two or more agents are in flight
C18_Witness ==
    /\ pc = "explore_wait" /\ N >= 2
    /\ \A k \in 1..N : worker[k] = "calling"
    /\ Cardinality(PhaseCalls("exploration")) = N

\* C19: after a successful integration every agent's SharedAnalysis is the
\* integration response while the context's initial analysis is still the
\* initial response; the final-response call goes to agent 0 with a prompt
\* that embeds the integration response and the original prompt, and the
\* value returned by a successful run is exactly that call's response.
C19_FinalResponseFromIntegration ==
    cfg.mode = "collaborative" =>
        /\ (pc \in {"final", "final_wait"} \/ PhaseCalls("final") # {}) =>
              /\ AllShare(Response("integration", 0))
              /\ Context.InitialAnalysis = Response("initial", 0)
        /\ \A i \in PhaseCalls("final") :
              /\ log[i].agent = 0
              /\ Contains(log[i].prompt,
                          <<"En t'appuyant sur cette analyse integree et approfondie:\n\n">>
                              \o Response("integration", 0))
              /\ Contains(log[i].prompt, cfg.Prompt)
        /\ Succeeded("collaborative") =>
              /\ PhaseCalls("final") # {}
              /\ ret.text = Response("final", 0)

\* a collaborative run of two or more agents returned the final response
C19_Witness ==
    /\ Succeeded("collaborative") /\ N >= 2
    /\ ret.text = Response("final", 0)

\* C20: every step that changes the agents or the collaborative context is
\* a step of the calling goroutine taken while no worker goroutine of the
\* pool is running (each has finished); a step of a worker changes neither.
C20_PoolWrittenOnlyWhileNoWorkerRuns ==
    [][(Agents' # Agents \/ Context' # Context) =>
            /\ \A k \in DOMAIN worker : Finished(k)
            /\ worker' = worker
            /\ pc' # pc]_vars

\* the insights of two or more finished workers have been stored
C20_Witness ==
    /\ pc = "integrate" /\ N >= 2
    /\ Len(Context.SharedInsights) = N
    /\ \A k \in 1..N : Finished(k)

Min(a, b) == IF a < b THEN a ELSE b

\* C21: a collaborative pool of N agents has as its dimension list the first
\* min(5, N) of the five fixed labels (never more labels than agents), and
\* agent i has label (i mod min(5, N)) of that list: the labels of a pool of
\* at most five agents are pairwise distinct, and in a larger pool agent
\* i + 5 has the label of agent i.
C21_DimensionAssignment ==
    /\ Len(allDimensions) = 5
    /\ \A i, j \in 1..5 : i # j => allDimensions[i] # allDimensions[j]
    /\ (cfg.mode = "collaborative" /\ Built /\ N > 0) =>
          LET m == Min(5, N) IN
          /\ Context.Dimensions = SubSeq(allDimensions, 1, m)
          /\ Len(Context.Dimensions) <= N
          /\ \A k \in 1..N :
                \E j \in 1..m, q \in 0..N :
                    /\ k - 1 = m * q + (j - 1)
                    /\ Agents[k].DimensionToExplore = Context.Dimensions[j]
          /\ N <= 5 =>
                \A i, j \in 1..N :
                    i # j => Agents[i].DimensionToExplore # Agents[j].DimensionToExplore
          /\ \A k \in 6..N :
                Agents[k].DimensionToExplore = Agents[k - 5].DimensionToExplore

\* a collaborative pool of six agents: the sixth has the first label again
C21_Witness ==
    /\ cfg.mode = "collaborative" /\ Built /\ N = 6
    /\ Len(Context.Dimensions) = 5
    /\ Agents[6].DimensionToExplore = allDimensions[1]
    /\ Agents[5].DimensionToExplore = allDimensions[5]

\* C22: in a collaborative run the insight list is always either empty or
\* holds exactly one entry per agent; it is non-empty only after phase 2 has
\* succeeded, and the only step that changes it goes from the empty list to
\* the full list of N insights.
C22_InsightsAllOrNothing ==
    /\ [](cfg.mode = "collaborative" =>
            /\ Len(Context.SharedInsights) \in {0, N}
            /\ Context.SharedInsights # << >> =>
                  /\ failures \cap {ProcessErr("exploration", id) : id \in 0..N} = {}
                  /\ pc \in {"integrate", "integrate_wait", "final", "final_wait", "done"}
            /\ (pc = "done" /\ \E id \in 0..N : ret.err = ProcessErr("exploration", id)) =>
                  Context.SharedInsights = << >>)
    /\ [][Context.SharedInsights' # Context.SharedInsights =>
            /\ Context.SharedInsights = << >>
            /\ N > 0 /\ Len(Context.SharedInsights') = N]_vars

\* the integration call is in flight with the insights of 2+ agents stored
C22_Witness ==
    /\ pc = "integrate_wait" /\ N >= 2
    /\ Len(Context.SharedInsights) = N

\* the phase of the pipeline the run has reached: 0 before the exploration
\* starts, 1 during exploration, 2 during integration, 3 from the final call
PhaseReached ==
    IF log = << >> THEN 0 ELSE PhaseRank(log[Len(log)].phase) - 1

\* C23: in collaborative mode every agent's Phase field equals the phase the
\* pipeline has reached (0 for initial analysis up to 3 for the final
\* response, hence never decreasing), and in standard and synthesis mode it
\* keeps the value 0 given at construction.
C23_PhaseCounterTracksPipeline ==
    \A k \in 1..N :
        IF cfg.mode = "collaborative"
        THEN Agents[k].Phase = PhaseReached
        ELSE Agents[k].Phase = 0

\* C24: no Process call is ever issued twice: every (phase, agent) pair, and
\* the synthesis call, occurs at most once in the call log whatever the
\* outcome of the call or of its siblings, and once a fan-out has been
\* launched every agent of the pool has exactly one call of that fan-out.
C24_NoRetry ==
    /\ \A i, j \in 1..Len(log) :
          (log[i].phase = log[j].phase /\ log[i].agent = log[j].agent) => i = j
    /\ worker # << >> =>
          /\ \A k \in 1..N : Calls(PhaseOfFanOut, Agents[k].ID) = 1
          /\ Cardinality(PhaseCalls(PhaseOfFanOut)) = N

\* a fan-out of two or more agents in which every call failed is over, and
\* the log still holds one call per agent
C24_Witness ==
    /\ cfg.mode \in {"standard", "synthesis"} /\ N >= 2
    /\ pc = "done" /\ Len(log) = N
    /\ DOMAIN worker = 1..N
    /\ \A k \in 1..N : Finished(k) /\ ~held[k].ok

EmptyPoolRun == cfg.mode = "collaborative" /\ cfg.direct /\ cfg.AgentCount = 0

\* C25: a run returns the no-agent error of the initial analysis exactly
\* when it is RunSocietyCollaborative on an empty pool, and then no Process
\* call was made; the nothing-to-integrate error is returned only when
\* integration finds no insights, which never happens because integration
\* is reached only with one insight per agent of a non-empty pool; so a run
\* started through SocietyCollaborative returns neither error, and every
\* error it returns after validation was returned by a Process call.
C25_EmptyPoolErrors ==
    /\ ret.err = ErrNoAgentForAnalysis <=> (pc = "done" /\ EmptyPoolRun)
    /\ ret.err = ErrNoAgentForAnalysis => (log = << >> /\ N = 0 /\ ret.text = << >>)
    /\ ret.err = ErrNothingToIntegrate => Context.SharedInsights = << >>
    /\ pc = "integrate" => (N > 0 /\ Len(Context.SharedInsights) = N)
    /\ (cfg.mode = "collaborative" /\ ~cfg.direct) =>
          /\ ret.err \notin {ErrNoAgentForAnalysis, ErrNothingToIntegrate, ErrNoAgentForResponse}
          /\ (pc = "done" /\ ret.err # NoErr /\ ~InvalidCall) => ret.err \in failures

\* RunSocietyCollaborative on an empty pool returned the no-agent error
C25_Witness ==
    /\ pc = "done" /\ EmptyPoolRun
    /\ ret.err = ErrNoAgentForAnalysis /\ log = << >>

\* the agent with every field but the shared-analysis slot
Fixed(a) == [a EXCEPT !.SharedAnalysis = << >>]

Draining == pc \in {"collect", "collectSynth", "explore_drain"}

\* C27: when every Process call eventually returns, every top-level call
\* eventually returns (a direct Run* call that the wrappers would have
\* rejected may instead end in the panic of the builder or of the nil
\* synthesis model); a draining loop is entered only with N results in the
\* channel, and whenever it still has a receive to do the channel is not
\* empty.
C27_EveryCallTerminates ==
    /\ <>(pc \in {"done", "panic"})
    /\ ~cfg.direct ~> pc = "done"
    /\ [][(~Draining /\ Draining') => (Len(Results') = N /\ results' = << >>)]_vars
    /\ []((Draining /\ Len(results) < N) => Results # << >>)

\* the draining loop of the synthesis aggregator is half-way through the
\* results of two or more agents
C27_Witness ==
    /\ pc = "collectSynth" /\ N >= 2
    /\ Len(results) = 1 /\ Len(Results) = N - 1

EarlyReturn ==
    /\ pc = "done" /\ worker # << >>
    /\ ret.err \in failures
    /\ PhaseOfErr(ret.err) = PhaseOfFanOut

AllFinished == \A k \in DOMAIN worker : Finished(k)

\* C28: after the runner has returned on a first failure every worker still
\* finishes and the error channel is then closed; a worker about to send, on
\* either channel, always finds room in the buffer; the error channel is
\* closed only when all workers are done, and only once.
C28_StragglersTerminate ==
    /\ EarlyReturn ~> (AllFinished /\ errsClosed /\ closer = "closed")
    /\ [](\A k \in DOMAIN worker :
            /\ worker[k] = "sendErr" => Len(errs) < N
            /\ worker[k] = "sendResult" => Len(Results) < ResultsCap)
    /\ [](errsClosed => AllFinished)
    /\ [][errsClosed' # errsClosed =>
            (~errsClosed /\ closer = "waiting" /\ closer' = "closed" /\ AllFinished)]_vars

\* the runner returned the first failure; the other workers finished
\* afterwards, a second failure stayed in the buffer and the channel is closed
C28_Witness ==
    /\ EarlyReturn /\ N >= 2
    /\ AllFinished /\ errsClosed
    /\ errs # << >>

AgentFailures == {e \in failures : PhaseOfErr(e) = "standard"}

\* C29: in synthesis mode, once any agent's Process call has failed the
\* synthesis model is never called and the aggregator is never entered; the
\* call returns one of the agents' failures with an empty text.  An error is
\* turned into a successful return only when it is the synthesis model's.
C29_AgentFailureNotDowngraded ==
    cfg.mode = "synthesis" =>
        /\ AgentFailures # {} =>
              /\ SynthCalls = {}
              /\ pc \notin {"collectSynth", "synth_wait"}
              /\ pc = "done" => (ret.err \in AgentFailures /\ ret.text = << >>)
        /\ (pc = "done" /\ ret.err = NoErr /\ failures # {}) =>
              (failures = {SynthesisErr} /\ Cardinality(SynthCalls) = 1)

\* SocietyWithSynthesis returned an agent's failure after every worker of a
\* pool of 2+ agents had finished, one of them with a result
C29_Witness ==
    /\ cfg.mode = "synthesis" /\ pc = "done" /\ N >= 2
    /\ ret.err \in AgentFailures /\ SynthCalls = {}
    /\ AllFinished /\ Results # << >>

\* C30: when the runner of a fan-out returns an error, that error is the one
\* that was sent first on the error channel, as returned by that worker's
\* Process call; the runner has taken exactly that one value from the
\* channel and the other errors sent stay in it, in the order sent.
C30_FirstSentErrorReturned ==
    /\ errOrder # << >> =>
          /\ pc \notin {"collect", "collectSynth", "synth_wait", "explore_drain",
                        "integrate", "integrate_wait", "final", "final_wait"}
          /\ \A i \in 1..Len(errOrder) :
                /\ ~held[errOrder[i]].ok
                /\ held[errOrder[i]].val = ProcessErr(PhaseOfFanOut, Agents[errOrder[i]].ID)
          /\ IF pc = "done"
             THEN /\ ret.err = held[errOrder[1]].val
                  /\ ret.err \in failures
                  /\ ret.text = << >>
                  /\ errs = [i \in 1..(Len(errOrder) - 1) |-> held[errOrder[i + 1]].val]
             ELSE errs = [i \in 1..Len(errOrder) |-> held[errOrder[i]].val]
    /\ (RunnerWaiting /\ errOrder = << >>) => (errs = << >> /\ ret.err = NoErr)

\* two workers failed; the one that sent first was not agent 0, and its
\* error is the one returned
C30_Witness ==
    /\ pc = "done" /\ Len(errOrder) >= 2
    /\ errOrder[1] # 1
    /\ ret.err = held[errOrder[1]].val
    /\ ret.err # held[errOrder[2]].val

ReturnedFailureOf(phase) ==
    /\ pc = "done" /\ cfg.mode = "collaborative"
    /\ ret.err \in failures
    /\ PhaseOfErr(ret.err) = phase

\* C31: a collaborative phase that fails writes nothing: after a failed
\* initial analysis the context's initial analysis and every agent's
\* SharedAnalysis are empty, after a failed exploration the insight list is
\* empty (and the initial analysis is still in place), and after a failed
\* integration every agent's SharedAnalysis is still the initial analysis
\* and the insights are still the N stored ones.
C31_FailedPhaseWritesNothing ==
    /\ ReturnedFailureOf("initial") =>
          /\ Context.InitialAnalysis = << >>
          /\ AllShare(<< >>)
          /\ Context.SharedInsights = << >>
    /\ ReturnedFailureOf("exploration") =>
          /\ Context.SharedInsights = << >>
          /\ Context.InitialAnalysis = Response("initial", 0)
          /\ AllShare(Response("initial", 0))
    /\ ReturnedFailureOf("integration") =>
          /\ AllShare(Response("initial", 0))
          /\ Context.InitialAnalysis = Response("initial", 0)
          /\ Len(Context.SharedInsights) = N
    /\ ReturnedFailureOf("final") => AllShare(Response("integration", 0))

\* the integration of a pool of 2+ agents failed and every agent still
\* shares the initial analysis
C31_Witness ==
    /\ ReturnedFailureOf("integration") /\ N >= 2
    /\ AllShare(Response("initial", 0))
    /\ Agents[N].SharedAnalysis # << >>

SingleCalls == {i \in 1..Len(log) : log[i].phase \notin {"standard", "exploration"}}

\* C32: the synthesis call and the calls of the single-agent phases are made
\* with the caller's context, never with the derived context of a fan-out,
\* so they are not cancelled when a fan-out has returned or when its timer
\* has fired; only fan-out calls carry the derived context.
C32_DeadlineLocalToFanOut ==
    /\ \A i \in SingleCalls : log[i].ctx = "caller" /\ ~Cancelled(log[i])
    /\ \A i \in 1..Len(log) : log[i].ctx = "fanout" <=> i \in FanOutCalls
    /\ pc \in {"synth_wait", "integrate_wait", "final_wait"} =>
          /\ ctxDone
          /\ ~Cancelled(log[Len(log)])

\* the synthesis call is in flight although the timer of the fan-out before
\* it had fired
C32_Witness ==
    /\ pc = "synth_wait" /\ ctxDone /\ deadline
    /\ log[Len(log)].phase = "synthesis" /\ log[Len(log)].ctx = "caller"

====
